---- MODULE Spec2Model ----
(***************************************************************************)
(* A model of simples3's bucket client (src/simples3/bucket.py): the       *)
(* header canonicaliser, the metadata codec, request construction and      *)
(* signing, the bounded retry loop of make_request, the object operations  *)
(* built on it, and the incremental parser of listdir.                     *)
(*                                                                         *)
(* Python byte strings are TLA+ strings; Python's None is the sentinel     *)
(* None, a string outside the alphabet the model's data is drawn from.     *)
(* Python dicts are functions from strings to strings.                     *)
(***************************************************************************)
EXTENDS Integers, Sequences, FiniteSets, TLC

VARIABLES
    bucket,      \* the S3Bucket instance: name, access_key, secret_key, base_url
    store,       \* keys present on the server
    now,         \* the clock, in seconds since the epoch
    pc,          \* "idle" | "attempt" | "done": where the current call stands
    call,        \* the operation in progress and what it passes to make_request
    retry_no,    \* make_request's loop counter
    last,        \* the request the current call dispatched most recently
    last_at,     \* the clock reading when last was built
    answers,     \* the transport's answer to each request dispatched, oldest first
    mr,          \* how make_request ended
    outcome,     \* how the operation ended
    heap,        \* the dict objects alive: default arguments, the caller's, locals
    l_records,   \* listdir: the records the server lists
    l_fault,     \* listdir: what is wrong with the last record: "none" or the fault
    l_body,      \* listdir: the listing body the server streams
    l_pos,       \* listdir: bytes of l_body already read
    l_buffer,    \* listdir: the accumulation buffer
    l_yielded,   \* listdir: entries yielded so far
    l_state,     \* listdir: "reading" | "done" | "ValueError"
    c_headers,   \* canonicaliser: the header mapping given
    c_order,     \* canonicaliser: the order in which the dict is iterated
    c_out,       \* canonicaliser: the string produced
    c_state,     \* canonicaliser: "input" | "done"
    m_metadata,  \* metadata codec: the mapping given to put
    m_wire,      \* metadata codec: how the wire cases header names
    m_headers,   \* metadata codec: the headers at the current stage
    m_info,      \* metadata codec: what info_dict made of them
    m_state      \* metadata codec: "input" | "encoded" | "received" | "decoded"

mainVars == <<bucket, store, now, pc, call, retry_no, last, last_at, answers, mr,
              outcome, heap>>
listVars == <<l_records, l_fault, l_body, l_pos, l_buffer, l_yielded, l_state>>
canonVars == <<c_headers, c_order, c_out, c_state>>
metaVars == <<m_metadata, m_wire, m_headers, m_info, m_state>>
vars == <<mainVars, listVars, canonVars, metaVars>>

None == "<None>"

----------------------------------------------------------------------------
(* Python's str operations. Indices are Python's: they start at 0.         *)

Char(s, i) == SubSeq(s, i + 1, i + 1)

MinOf(S) == CHOOSE i \in S : \A j \in S : i <= j

\* s[a:b] for 0 <= a
Slice(s, a, b) ==
    LET e == IF b > Len(s) THEN Len(s) ELSE b
    IN  IF a >= e THEN "" ELSE SubSeq(s, a + 1, e)

\* s[a:]
SliceFrom(s, a) == Slice(s, a, Len(s))

\* s.find(pat): the lowest index where pat occurs, -1 when it does not
Find(s, pat) ==
    LET hits == {i \in 0..(Len(s) - Len(pat)) : SubSeq(s, i + 1, i + Len(pat)) = pat}
    IN  IF hits = {} THEN 0 - 1 ELSE MinOf(hits)

StartsWith(s, pat) == Slice(s, 0, Len(pat)) = pat

\* The printable ASCII characters in code order, from the space (code 32). The
\* place of the grave accent (code 96), which a TLA+ string cannot hold, is kept
\* by a tab.
Ascii ==
    " !\"#$%&'()*+,-./0123456789:;<=>?@ABCDEFGHIJKLMNOPQRSTUVWXYZ[\\]^_\tabcdefghijklmnopqrstuvwxyz{|}~"

AsciiChars == {Char(Ascii, i) : i \in 0..(Len(Ascii) - 1)}

\* ord(c) of a printable ASCII character
OrdTable == [c \in AsciiChars |-> Find(Ascii, c) + 32]

Ord(c) == OrdTable[c]

UpperAlpha == "ABCDEFGHIJKLMNOPQRSTUVWXYZ"
LowerAlpha == "abcdefghijklmnopqrstuvwxyz"
Digits == "0123456789"

\* c.lower() of one character
LowerTable ==
    [c \in AsciiChars |->
        LET i == Find(UpperAlpha, c) IN IF i >= 0 THEN Char(LowerAlpha, i) ELSE c]

LowerChar(c) == IF c \in AsciiChars THEN LowerTable[c] ELSE c

\* c.upper() of one character
UpperTable ==
    [c \in AsciiChars |->
        LET i == Find(LowerAlpha, c) IN IF i >= 0 THEN Char(UpperAlpha, i) ELSE c]

RECURSIVE Upper(_)
Upper(s) == IF s = "" THEN "" ELSE UpperTable[Char(s, 0)] \o Upper(SliceFrom(s, 1))

RECURSIVE Lower(_)
Lower(s) == IF s = "" THEN "" ELSE LowerChar(Char(s, 0)) \o Lower(SliceFrom(s, 1))

IsDigit(c) == Len(c) = 1 /\ Find(Digits, c) >= 0

RECURSIVE AllDigits(_)
AllDigits(s) == s = "" \/ (IsDigit(Char(s, 0)) /\ AllDigits(SliceFrom(s, 1)))

\* int(s) of a string of decimal digits
RECURSIVE IntOf(_)
IntOf(s) ==
    IF s = "" THEN 0
    ELSE IntOf(Slice(s, 0, Len(s) - 1)) * 10 + Find(Digits, Char(s, Len(s) - 1))

\* str(n) of a natural number
RECURSIVE StrOf(_)
StrOf(n) == IF n < 10 THEN Char(Digits, n) ELSE StrOf(n \div 10) \o Char(Digits, n % 10)

\* a < b in Python's byte order
RECURSIVE StrLess(_, _)
StrLess(a, b) ==
    IF b = "" THEN FALSE
    ELSE IF a = "" THEN TRUE
    ELSE IF Char(a, 0) = Char(b, 0) THEN StrLess(SliceFrom(a, 1), SliceFrom(b, 1))
    ELSE Ord(Char(a, 0)) < Ord(Char(b, 0))

\* sorted(S) of a set of strings
RECURSIVE Sorted(_)
Sorted(S) ==
    IF S = {} THEN <<>>
    ELSE LET m == CHOOSE x \in S : \A y \in S \ {x} : StrLess(x, y)
         IN  <<m>> \o Sorted(S \ {m})

\* sep.join(seq)
RECURSIVE Join(_, _)
Join(sep, seq) ==
    IF Len(seq) = 0 THEN ""
    ELSE IF Len(seq) = 1 THEN seq[1]
    ELSE seq[1] \o sep \o Join(sep, Tail(seq))

\* s.replace(old, new)
RECURSIVE Replace(_, _, _)
Replace(s, old, new) ==
    LET i == Find(s, old)
    IN  IF i < 0 THEN s
        ELSE Slice(s, 0, i) \o new \o Replace(SliceFrom(s, i + Len(old)), old, new)

(* Python's dict operations.                                               *)

EmptyDict == [h \in {} |-> ""]

\* d[k] = v
DictSet(d, k, v) == [h \in DOMAIN d \cup {k} |-> IF h = k THEN v ELSE d[h]]

\* d.update(e)
DictUpdate(d, e) == [h \in DOMAIN d \cup DOMAIN e |-> IF h \in DOMAIN e THEN e[h] ELSE d[h]]

\* d.get(k, default)
DictGet(d, k, default) == IF k \in DOMAIN d THEN d[k] ELSE default

\* the orders in which a dict with key set S may be iterated
RECURSIVE IterOrders(_)
IterOrders(S) ==
    IF S = {} THEN {<<>>}
    ELSE UNION {{<<x>> \o o : o \in IterOrders(S \ {x})} : x \in S}

----------------------------------------------------------------------------
(* The module-level functions of bucket.py.                                *)

\* The dict rv that _amz_canonicalize builds, iterating headers in order o:
\* lower-cased x-amz- names, each with the list of its values in that order.
RECURSIVE AmzGroups(_, _)
AmzGroups(headers, o) ==
    IF Len(o) = 0 THEN [h \in {} |-> <<>>]
    ELSE LET rv == AmzGroups(headers, SubSeq(o, 1, Len(o) - 1))
             header == Lower(o[Len(o)])
             value == headers[o[Len(o)]]
         IN  IF StartsWith(header, "x-amz-")
             THEN [h \in DOMAIN rv \cup {header} |->
                     IF h = header
                     THEN (IF header \in DOMAIN rv THEN rv[header] ELSE <<>>) \o <<value>>
                     ELSE rv[h]]
             ELSE rv

\* "".join(parts) for the keys of rv in the order keys
RECURSIVE AmzParts(_, _)
AmzParts(rv, keys) ==
    IF Len(keys) = 0 THEN ""
    ELSE keys[1] \o ":" \o Join(",", rv[keys[1]]) \o "\n" \o AmzParts(rv, Tail(keys))

\* _amz_canonicalize(headers), when headers.iteritems() runs in order o
AmzCanonicalizeIn(headers, o) ==
    LET rv == AmzGroups(headers, o) IN AmzParts(rv, Sorted(DOMAIN rv))

\* Some order in which a dict with key set S is iterated.
RECURSIVE DictOrder(_)
DictOrder(S) ==
    IF S = {} THEN <<>>
    ELSE LET x == CHOOSE y \in S : TRUE IN <<x>> \o DictOrder(S \ {x})

\* _amz_canonicalize(headers) for a dict no two names of which are equal when
\* lower-cased: every iteration order then gives the same string.
AmzCanonicalize(headers) == AmzCanonicalizeIn(headers, DictOrder(DOMAIN headers))

MetaPrefix == "X-AMZ-Meta-"

metadata_headers(metadata) ==
    LET names == {MetaPrefix \o h : h \in DOMAIN metadata}
    IN  [n \in names |-> metadata[SliceFrom(n, Len(MetaPrefix))]]

\* A bug headers_metadata does not have: the prefix is matched as put spells it.
IsMetaHeaderAsSent(h) == StartsWith(h, MetaPrefix)

IsMetaHeader(h) == StartsWith(Lower(h), "x-amz-meta-")

MetaKey(h) == SliceFrom(h, 11)

headers_metadata(headers) ==
    LET names == {h \in DOMAIN headers : IsMetaHeader(h)}
    IN  [k \in {MetaKey(h) : h \in names} |->
            headers[CHOOSE h \in names : MetaKey(h) = k]]

\* hashlib.md5(data).digest().encode("base64")[:-1]. The digest is modelled as
\* an ideal hash: a term that names its input, so that two bodies never share one.
aws_md5(data) == "md5(" \o data \o ")"

HexDigits == "0123456789ABCDEF"

\* urllib.quote's "%XX" of one character
PercentEncode(c) ==
    IF c = "\n" THEN "%0A"
    ELSE "%" \o Char(HexDigits, Ord(c) \div 16) \o Char(HexDigits, Ord(c) % 16)

AlwaysSafe == UpperAlpha \o LowerAlpha \o Digits \o "_.-"

\* the characters urllib.quote(value, safe) leaves as they are
SafeChars(safe) == {Char(AlwaysSafe \o safe, i) : i \in 0..(Len(AlwaysSafe \o safe) - 1)}

SafeSlash == SafeChars("/")

SafeSpace == SafeChars(" ")

\* urllib.quote(value, safe) of an ASCII string
RECURSIVE Quote(_, _)
Quote(value, safe) ==
    IF value = "" THEN ""
    ELSE LET c == Char(value, 0)
         IN  (IF c \in safe THEN c ELSE PercentEncode(c)) \o Quote(SliceFrom(value, 1), safe)

aws_urlquote(value) == Quote(value, SafeSlash)

\* urllib.quote_plus(value)
quote_plus(value) == Replace(Quote(value, SafeSpace), " ", "+")

DefaultMimetype == "application/octet-stream"

\* guess_mimetype(fn): a name without a dot gets the default; the rest is the
\* standard library's table, of which the model knows the entry for ".txt".
guess_mimetype(fn) ==
    IF Find(fn, ".") < 0 THEN DefaultMimetype
    ELSE IF Lower(SliceFrom(fn, Len(fn) - 4)) = ".txt" THEN "text/plain"
    ELSE DefaultMimetype

TwoDigits(n) == Char(Digits, n \div 10) \o Char(Digits, n % 10)

\* time.strftime(rfc822_fmt, time.gmtime()) when the clock reads t seconds
\* past the epoch, t < 60
Strftime(t) == "Thu, 01 Jan 1970 00:00:" \o TwoDigits(t) \o " GMT"

----------------------------------------------------------------------------
(* S3Bucket: request construction and signing.                             *)

amazon_s3_base == "https://s3.amazonaws.com/"

\* S3Bucket.__init__(name, access_key, secret_key, base_url)
NewBucket(name, access_key, secret_key, base_url) ==
    [name |-> name, access_key |-> access_key, secret_key |-> secret_key,
     base_url |-> IF base_url = None \/ base_url = ""
                  THEN amazon_s3_base \o aws_urlquote(name) ELSE base_url]

\* Python's truth value of a str-or-None
Truthy(x) == x # None /\ x # ""

\* S3Bucket.sign_description: base64 of the HMAC-SHA1 of desc under the secret
\* key, modelled as an ideal MAC: a term that names the key and the text signed.
sign_description(self, desc) == "hmac(" \o self.secret_key \o "," \o desc \o ")"

canonicalized_resource(self, key, bkt) ==
    "/" \o (IF bkt = None THEN aws_urlquote(self.name)
            ELSE IF bkt # "" THEN aws_urlquote(bkt) ELSE "")
        \o "/" \o (IF Truthy(key) THEN aws_urlquote(key) ELSE "")

make_description(self, method, key, headers, subresource, bkt) ==
    LET res == canonicalized_resource(self, key, bkt)
               \o (IF Truthy(subresource) THEN "?" \o subresource ELSE "")
    IN  Join("\n", <<method, DictGet(headers, "Content-MD5", ""),
                     DictGet(headers, "Content-Type", ""), DictGet(headers, "Date", "")>>)
        \o "\n" \o AmzCanonicalize(headers) \o res

get_request_signature(self, method, key, headers) ==
    sign_description(self, make_description(self, method, key, headers, None, None))

\* arg_sep.join("=".join(map(urllib.quote_plus, item)) for item in args_items)
RECURSIVE QueryString(_, _)
QueryString(args, arg_sep) ==
    IF Len(args) = 0 THEN ""
    ELSE quote_plus(args[1][1]) \o "=" \o quote_plus(args[1][2])
         \o (IF Len(args) > 1 THEN arg_sep \o QueryString(Tail(args), arg_sep) ELSE "")

\* S3Bucket.make_url; args is the sequence of the (name, value) pairs
make_url(self, key, args, arg_sep) ==
    self.base_url \o "/" \o (IF Truthy(key) THEN aws_urlquote(key) ELSE "")
        \o (IF Len(args) > 0 THEN "?" \o QueryString(args, arg_sep) ELSE "")

\* A bug new_request does not have: the signature is computed before the Date
\* header is set.
RequestHeaders_signed_early(self, method, key, data, headers, t) ==
    LET h1 == IF Truthy(data) /\ "Content-MD5" \notin DOMAIN headers
              THEN DictSet(headers, "Content-MD5", aws_md5(data)) ELSE headers
        h2 == IF "Authorization" \notin DOMAIN h1
              THEN DictSet(h1, "Authorization",
                       "AWS " \o self.access_key \o ":" \o get_request_signature(self, method, key, h1))
              ELSE h1
    IN  IF "Date" \notin DOMAIN h2 THEN DictSet(h2, "Date", Strftime(t)) ELSE h2

\* The headers new_request ends with, built at clock reading t.
RequestHeaders(self, method, key, data, headers, t) ==
    LET h1 == IF Truthy(data) /\ "Content-MD5" \notin DOMAIN headers
              THEN DictSet(headers, "Content-MD5", aws_md5(data)) ELSE headers
        h2 == IF "Date" \notin DOMAIN h1 THEN DictSet(h1, "Date", Strftime(t)) ELSE h1
    IN  IF "Authorization" \notin DOMAIN h2
        THEN DictSet(h2, "Authorization",
                 "AWS " \o self.access_key \o ":" \o get_request_signature(self, method, key, h2))
        ELSE h2

\* A bug new_request does not have: the headers of the previous attempt are
\* kept and sent again on the retry.
new_request_cached(self, method, key, args, data, headers, t) ==
    [method |-> method, url |-> make_url(self, key, args, ";"), data |-> data,
     headers |-> IF Len(answers) > 0 THEN last.headers
                 ELSE RequestHeaders(self, method, key, data, headers, t)]

\* S3Bucket.new_request, called when the clock reads t
new_request(self, method, key, args, data, headers, t) ==
    [method |-> method, url |-> make_url(self, key, args, ";"), data |-> data,
     headers |-> RequestHeaders(self, method, key, data, headers, t)]

\* The default of url_for's expire: datetime.timedelta(minutes=5), in seconds
DefaultExpire == 300

\* S3Bucket.url_for, called when the clock reads t. expire is a record: a
\* timedelta (kind "timedelta", v seconds), or a UNIX timestamp or a datetime
\* (v seconds since the epoch).
url_for(self, key, authenticated, expire, t) ==
    IF authenticated
    THEN LET expire_desc == StrOf(IF expire.kind = "timedelta" THEN t + expire.v
                                  ELSE expire.v)
             auth_descriptor == "GET\n" \o "\n" \o "\n" \o expire_desc \o "\n"
                                    \o canonicalized_resource(self, key, None)
             args == << <<"AWSAccessKeyId", self.access_key>>,
                        <<"Expires", expire_desc>>,
                        <<"Signature", sign_description(self, auth_descriptor)>> >>
         IN  make_url(self, key, args, "&")
    ELSE make_url(self, key, <<>>, ";")

----------------------------------------------------------------------------
(* The transport (urllib2's opener) and the server behind it.              *)

MaxClock == 1

\* getattr(e, "code", None) of a urllib2.URLError, which has no status
NoCode == 0

Keys == {"a", "my file"}

\* The path of the request below the bucket, without the query string
RequestKey(request) ==
    LET path == SliceFrom(request.url, Len(bucket.base_url) + 1)
        q == Find(path, "?")
    IN  IF q >= 0 THEN Slice(path, 0, q) ELSE path

\* What the server answers to a request it processes, given the keys it holds.
ServerStatus(request, keys) ==
    LET key == RequestKey(request)
        present == \E k \in keys : aws_urlquote(k) = key
        source == DictGet(request.headers, "X-AMZ-Copy-Source", None)
    IN  IF key = "" THEN
            (IF request.method = "DELETE" /\ keys # {} THEN 409
             ELSE IF request.method = "DELETE" THEN 204 ELSE 200)
        ELSE IF request.method = "PUT" THEN
            (IF source = None \/ \E k \in keys : bucket.name \o "/" \o k = source
             THEN 200 ELSE 404)
        ELSE IF request.method = "DELETE" THEN (IF present THEN 204 ELSE 404)
        ELSE (IF present THEN 200 ELSE 404)

\* The keys the server holds after processing the request.
ServerStore(request, keys) ==
    LET key == RequestKey(request)
    IN  IF key = "" \/ ServerStatus(request, keys) >= 300 THEN keys
        ELSE IF request.method = "PUT" THEN keys \cup {k \in Keys : aws_urlquote(k) = key}
        ELSE IF request.method = "DELETE" THEN {k \in keys : aws_urlquote(k) # key}
        ELSE keys

\* The reason phrase of a status
ReasonOf(code) ==
    CASE code = 204 -> "No Content"
      [] code = 403 -> "Forbidden"
      [] code = 404 -> "Not Found"
      [] code = 409 -> "Conflict"
      [] code = 500 -> "Internal Server Error"
      [] code = 503 -> "Service Unavailable"
      [] OTHER -> "OK"

\* The body of the server's answer with an error status
ErrorBody(code) ==
    "<Error><Code>" \o StrOf(code) \o "</Code><Message>" \o ReasonOf(code)
        \o ".</Message></Error>"

\* An urllib2.HTTPError: its attributes code, filename, fp (body is what
\* fp.read() gives) and reason. Whether HTTPError has the attribute reason
\* depends on the version of urllib2: None stands for an attribute it lacks.
HTTPErrors(request, code, processed, body) ==
    {[kind |-> "error", code |-> code, processed |-> processed, reason |-> r,
      filename |-> request.url, body |-> body] :
        r \in IF code = 500 THEN {ReasonOf(code)} ELSE {None, ReasonOf(code)}}

\* An urllib2.URLError: reason only
URLErrorAnswer ==
    [kind |-> "error", code |-> NoCode, processed |-> FALSE, reason |-> "timed out",
     filename |-> None, body |-> None]

\* How opener.open(request) may end. urllib2 returns a 2xx response and raises
\* HTTPError for every other status; up to Python 2.5 it raises for 204 too. A
\* request that does not get through ends in HTTPError with the status of the
\* fault and an empty body, or in URLError, which has no status. processed tells
\* whether the server carried the request out.
TransportAnswers(request, keys) ==
    LET status == ServerStatus(request, keys)
    IN  (IF status = 200 \/ status = 204
         THEN {[kind |-> "response", code |-> status, processed |-> TRUE, reason |-> None,
                filename |-> None, body |-> None]}
         ELSE {})
        \cup (IF status # 200
              THEN HTTPErrors(request, status, TRUE,
                              IF status = 204 THEN "" ELSE ErrorBody(status))
              ELSE {})
        \cup UNION {HTTPErrors(request, c, FALSE, "") : c \in {500, 403, 503}}
        \cup {URLErrorAnswer}

----------------------------------------------------------------------------
(* How a call ends: a value returned or an exception raised.               *)

NoOutcome == [kind |-> "none", exc |-> "", code |-> NoCode, value |-> "", extra |-> EmptyDict]

Returns(value, code) ==
    [kind |-> "return", exc |-> "", code |-> code, value |-> value, extra |-> EmptyDict]

Raises(exc, code, value) ==
    [kind |-> "raise", exc |-> exc, code |-> code, value |-> value, extra |-> EmptyDict]

\* S3Error.from_urllib(e), the attributes of e: self.extra
from_urllib_extra(e) ==
    LET attrs == (IF e.reason # None THEN {"reason"} ELSE {})
                   \cup (IF e.code # NoCode THEN {"code"} ELSE {})
                   \cup (IF e.filename # None THEN {"filename"} ELSE {})
    IN  [a \in attrs |-> CASE a = "reason" -> e.reason
                           [] a = "code" -> e.code
                           [] a = "filename" -> e.filename]

\* S3Error.from_urllib(e), the body of e: self.msg
from_urllib_msg(e) ==
    IF e.body = None THEN "HTTP error"
    ELSE LET begin == Find(e.body, "<Message>")
             end == Find(e.body, "</Message>")
             msg == Slice(e.body, begin + 9, end)
         IN  IF begin >= 0 /\ end >= 0
             THEN (IF Len(msg) > 100 THEN Slice(msg, 0, 100) \o "..." ELSE msg)
             ELSE "HTTP error"

\* S3Error.from_urllib(e); code is the property S3Error.code, extra.get("code")
S3Error_from_urllib(e) ==
    [Raises("S3Error", e.code, from_urllib_msg(e)) EXCEPT !.extra = from_urllib_extra(e)]

MaxRetries == 10

\* A bug make_request does not have: the loop bound is off by one, so that an
\* eleventh request is dispatched.
make_request_step_one_more(no, ans) ==
    IF ans.kind = "response" THEN Returns("response", ans.code)
    ELSE IF ans.code = 500 THEN
        (IF no < MaxRetries THEN [NoOutcome EXCEPT !.kind = "continue"]
         ELSE Raises("RuntimeError", NoCode, "ran out of retries"))
    ELSE S3Error_from_urllib(ans)

\* A bug make_request does not have: every 5xx status is retried.
make_request_step_any_5xx(no, ans) ==
    IF ans.kind = "response" THEN Returns("response", ans.code)
    ELSE IF ans.code >= 500 THEN
        (IF no + 1 < MaxRetries THEN [NoOutcome EXCEPT !.kind = "continue"]
         ELSE Raises("RuntimeError", NoCode, "ran out of retries"))
    ELSE S3Error_from_urllib(ans)

\* One pass of make_request's loop, given the transport's answer: the loop goes
\* on ("continue"), or make_request ends.
make_request_step(no, ans) ==
    IF ans.kind = "response" THEN Returns("response", ans.code)
    ELSE IF ans.code = 500 THEN
        (IF no + 1 < MaxRetries THEN [NoOutcome EXCEPT !.kind = "continue"]
         ELSE Raises("RuntimeError", NoCode, "ran out of retries"))
    ELSE S3Error_from_urllib(ans)

----------------------------------------------------------------------------
(* The operations of S3Bucket, each as what it does with the way its        *)
(* make_request call ended (m).                                            *)

\* S3Bucket.get: the response, with s3_info attached
get(key, m) == IF m.kind = "return" THEN Returns("response", m.code) ELSE m

\* S3Bucket.info
info(key, m) ==
    IF m.kind = "raise" /\ m.exc = "S3Error"
    THEN (IF m.code = 404 THEN Raises("KeyError", m.code, key) ELSE m)
    ELSE IF m.kind = "return" THEN Returns("info", m.code)
    ELSE m

\* S3Bucket.__contains__
contains(key, m) ==
    LET i == info(key, m)
    IN  IF i.kind = "raise" /\ i.exc = "KeyError" THEN Returns("False", i.code)
        ELSE IF i.kind = "return" THEN Returns("True", i.code)
        ELSE i

\* S3Bucket.delete. An S3Error caught in resp has no close method: resp.close()
\* raises AttributeError before the status is looked at.
delete(key, m) ==
    IF m.kind = "raise" /\ m.exc = "S3Error"
    THEN Raises("AttributeError", m.code, "'S3Error' object has no attribute 'close'")
    ELSE IF m.kind = "return"
    THEN (IF 200 <= m.code /\ m.code < 300 THEN Returns("True", m.code)
          ELSE IF m.code = 404 THEN Raises("KeyError", m.code, key)
          ELSE S3Error_from_urllib([code |-> m.code, reason |-> None, filename |-> None,
                                    body |-> None]))
    ELSE m

\* A transformer a caller may pass to put: it returns the body to send.
Transform(transformer, headers, data) == "gz(" \o data \o ")"

\* A bug put does not have: the hash and the length are those of the body
\* before the transformer.
put_arguments_early(key, data, acl, metadata, mimetype, transformer, headers) ==
    LET h1 == DictSet(headers, "Content-Type",
                      IF Truthy(mimetype) THEN mimetype ELSE guess_mimetype(key))
        h2 == DictUpdate(h1, metadata_headers(metadata))
        h3 == IF Truthy(acl) THEN DictSet(h2, "X-AMZ-ACL", acl) ELSE h2
        d == IF transformer # None THEN Transform(transformer, h3, data) ELSE data
    IN  [data |-> d,
         headers |-> IF d = None THEN h3
                     ELSE DictUpdate(h3, [h \in {"Content-Length", "Content-MD5"} |->
                              IF h = "Content-Length" THEN StrOf(Len(data))
                              ELSE aws_md5(data)])]

\* S3Bucket.put up to its make_request call: the body and the headers it passes
put_arguments(key, data, acl, metadata, mimetype, transformer, headers) ==
    LET h1 == DictSet(headers, "Content-Type",
                      IF Truthy(mimetype) THEN mimetype ELSE guess_mimetype(key))
        h2 == DictUpdate(h1, metadata_headers(metadata))
        h3 == IF Truthy(acl) THEN DictSet(h2, "X-AMZ-ACL", acl) ELSE h2
        d == IF transformer # None THEN Transform(transformer, h3, data) ELSE data
    IN  [data |-> d,
         headers |-> IF d = None THEN h3
                     ELSE DictUpdate(h3, [h \in {"Content-Length", "Content-MD5"} |->
                              IF h = "Content-Length" THEN StrOf(Len(d)) ELSE aws_md5(d)])]

\* S3Bucket.put after make_request: the response is closed, None is returned
put(key, m) == IF m.kind = "return" THEN Returns("None", m.code) ELSE m

\* S3Bucket.copy up to its make_request call: the headers it passes. replace
\* tells whether metadata was given (is not None).
copy_headers(source, key, acl, replace, metadata, mimetype, headers) ==
    LET h1 == DictSet(headers, "Content-Type",
                      IF Truthy(mimetype) THEN mimetype ELSE guess_mimetype(key))
        h2 == DictSet(h1, "X-AMZ-Copy-Source", source)
        h3 == IF Truthy(acl) THEN DictSet(h2, "X-AMZ-ACL", acl) ELSE h2
    IN  IF replace
        THEN DictUpdate(DictSet(h3, "X-AMZ-Metadata-Directive", "REPLACE"),
                        metadata_headers(metadata))
        ELSE DictSet(h3, "X-AMZ-Metadata-Directive", "COPY")

\* S3Bucket.put_bucket up to its make_request call: the headers it passes
put_bucket_headers(config_xml, acl) ==
    LET h1 == IF Truthy(config_xml)
              THEN [h \in {"Content-Length", "Content-Type"} |->
                      IF h = "Content-Length" THEN StrOf(Len(config_xml)) ELSE "text/xml"]
              ELSE [h \in {"Content-Length"} |-> "0"]
    IN  IF Truthy(acl) THEN DictSet(h1, "X-AMZ-ACL", acl) ELSE h1

\* S3Bucket.put_bucket after make_request: resp.code == 200
put_bucket(m) ==
    IF m.kind = "return" THEN Returns(IF m.code = 200 THEN "True" ELSE "False", m.code)
    ELSE m

\* What the operation op makes of the way its make_request call ended.
Finish(op, key, m) ==
    CASE op = "get" -> get(key, m)
      [] op = "info" -> info(key, m)
      [] op = "contains" -> contains(key, m)
      [] op = "delete" -> delete(key, m)
      [] op = "put" -> put(key, m)
      [] op = "copy" -> put(key, m)
      [] op = "put_bucket" -> put_bucket(m)
      [] OTHER -> m

----------------------------------------------------------------------------
(* The calls a program makes on one bucket, one at a time.                 *)

NoRequest == [method |-> "", url |-> "", data |-> None, headers |-> EmptyDict]

NoCall == [op |-> "", key |-> None, method |-> "", args |-> <<>>, data |-> None,
           headers |-> EmptyDict, caller |-> EmptyDict, metadata |-> EmptyDict,
           href |-> ""]

\* The dicts created once, when the def statements run: the default values of
\* the parameters headers and metadata, shared by all calls that leave them out.
DefaultRefs == {"make_request.headers", "put.headers", "put.metadata", "copy.headers"}

\* The dicts of the caller, and the dicts a call creates: the headers an
\* operation builds, the headers of the request new_request builds.
CallRefs == {"caller.headers", "caller.metadata", "headers", "request"}

NoObjects == [r \in DefaultRefs \cup CallRefs |-> EmptyDict]

\* The dict an operation's parameter headers is bound to: the caller's when
\* one is given, else the default of the function called.
HeadersRef(op, caller) ==
    IF caller # EmptyDict THEN "caller.headers"
    ELSE CASE op = "put" -> "put.headers"
           [] op = "copy" -> "copy.headers"
           [] OTHER -> "make_request.headers"

\* A bug put and copy do not have: no copy is made, the headers are written
\* into the dict the parameter is bound to.
headers_in_place(objects, ref, written) ==
    [objects EXCEPT ![ref] = written, !["headers"] = written]

\* headers = headers.copy(), then the updates of the copy that leave it as
\* written: the dict the parameter was bound to is left alone.
headers_copy(objects, ref, written) == [objects EXCEPT !["headers"] = written]

\* The dicts when the operation calls make_request with headers, the caller
\* having passed the dicts caller and metadata.
EnterHeap(op, headers, caller, metadata) ==
    LET given == [heap EXCEPT !["caller.headers"] = caller, !["caller.metadata"] = metadata]
    IN  CASE op \in {"put", "copy"} -> headers_copy(given, HeadersRef(op, caller), headers)
          [] op = "put_bucket" -> [given EXCEPT !["headers"] = headers]
          [] OTHER -> given

\* What an operation reads from its parameter: the dict the caller gave, or the
\* default of the parameter as it is by now.
Bound(given, default) == IF given # EmptyDict THEN given ELSE heap[default]

\* The dict make_request's parameter headers is bound to
MakeRequestRef(op, caller) ==
    IF op \in {"put", "copy", "put_bucket"} THEN "headers" ELSE HeadersRef(op, caller)

ListIdle ==
    /\ l_records = <<>> /\ l_fault = "none"
    /\ l_body = "" /\ l_pos = 0 /\ l_buffer = "" /\ l_yielded = <<>> /\ l_state = "idle"

CanonIdle ==
    /\ c_headers = EmptyDict /\ c_order = <<>> /\ c_out = "" /\ c_state = "idle"

MetaIdle ==
    /\ m_metadata = EmptyDict /\ m_wire = "" /\ m_headers = EmptyDict
    /\ m_info = EmptyDict /\ m_state = "idle"

MainIdle ==
    /\ bucket = NewBucket("bottle", "AKID", "secret", None)
    /\ store = {}
    /\ now = 0
    /\ pc = "idle"
    /\ call = NoCall
    /\ retry_no = 0
    /\ last = NoRequest
    /\ last_at = 0
    /\ answers = <<>>
    /\ mr = NoOutcome
    /\ outcome = NoOutcome
    /\ heap = NoObjects

Init == MainIdle /\ ListIdle /\ CanonIdle /\ MetaIdle

\* The call enters make_request: for retry_no in xrange(10)
Enter(op, method, key, data, headers, caller, metadata) ==
    /\ pc = "idle"
    /\ pc' = "attempt"
    /\ call' = [op |-> op, key |-> key, method |-> method, args |-> <<>>,
                data |-> data, headers |-> headers, caller |-> caller,
                metadata |-> metadata, href |-> MakeRequestRef(op, caller)]
    /\ heap' = EnterHeap(op, headers, caller, metadata)
    /\ retry_no' = 0
    /\ last' = NoRequest
    /\ last_at' = 0
    /\ answers' = <<>>
    /\ mr' = NoOutcome
    /\ outcome' = NoOutcome
    /\ UNCHANGED <<bucket, store, now, listVars, canonVars, metaVars>>

CallGet == \E key \in Keys : Enter("get", "GET", key, None, EmptyDict, EmptyDict, EmptyDict)

CallInfo == \E key \in Keys : Enter("info", "HEAD", key, None, EmptyDict, EmptyDict, EmptyDict)

CallContains == \E key \in Keys : Enter("contains", "HEAD", key, None, EmptyDict, EmptyDict, EmptyDict)

\* delete(key), and delete_bucket(), which is delete(None)
CallDelete == \E key \in Keys \cup {None} : Enter("delete", "DELETE", key, None, EmptyDict, EmptyDict, EmptyDict)

Bodies == {None, "", "my content"}

CallerHeaders ==
    {EmptyDict,
     [h \in {"Content-MD5"} |-> "bogus"],
     [h \in {"Date"} |-> Strftime(0)],
     [h \in {"Authorization"} |-> "AWS other:signature"],
     [h \in {"X-AMZ-Storage-Class"} |-> "STANDARD"]}

Metadatas == {EmptyDict, [h \in {"hairdo"} |-> "Secret"]}

\* put(key, data, acl, metadata, mimetype, transformer, headers); len(None) is
\* a TypeError, raised before anything is sent.
CallPut ==
    \E key \in {"a"}, data \in Bodies, transformer \in {None, "gzip"},
       acl \in {None, "public-read"}, metadata \in Metadatas,
       headers \in {EmptyDict, [h \in {"Content-MD5"} |-> "bogus"]} :
        /\ transformer # None => (data = "my content" /\ acl = None /\ metadata = EmptyDict)
        /\ acl # None => (data = "my content" /\ metadata # EmptyDict /\ headers = EmptyDict)
        /\ data # "my content" => (metadata = EmptyDict /\ headers = EmptyDict)
        /\ LET a == put_arguments(key, data, acl, Bound(metadata, "put.metadata"),
                                  IF acl # None THEN "text/plain" ELSE None,
                                  transformer, Bound(headers, "put.headers"))
           IN  IF a.data = None
               THEN /\ pc = "idle"
                    /\ pc' = "done"
                    /\ call' = [NoCall EXCEPT !.op = "put", !.key = key, !.method = "PUT",
                                              !.caller = headers, !.metadata = metadata,
                                              !.href = "headers"]
                    /\ heap' = EnterHeap("put", a.headers, headers, metadata)
                    /\ outcome' = Raises("TypeError", NoCode, "object of type 'NoneType' has no len()")
                    /\ mr' = NoOutcome
                    /\ retry_no' = 0
                    /\ last' = NoRequest
                    /\ last_at' = 0
                    /\ answers' = <<>>
                    /\ UNCHANGED <<bucket, store, now, listVars, canonVars, metaVars>>
               ELSE Enter("put", "PUT", key, a.data, a.headers, headers, metadata)

\* listdir(prefix) up to the response: make_request("GET", args=args)
CallListdir ==
    \E prefix \in {None, "test/"} :
        /\ pc = "idle"
        /\ pc' = "attempt"
        /\ call' = [NoCall EXCEPT !.op = "listdir", !.method = "GET",
                                  !.args = IF prefix = None THEN <<>>
                                           ELSE << <<"prefix", prefix>> >>,
                                  !.href = MakeRequestRef("listdir", EmptyDict)]
        /\ heap' = EnterHeap("listdir", EmptyDict, EmptyDict, EmptyDict)
        /\ retry_no' = 0
        /\ last' = NoRequest
        /\ last_at' = 0
        /\ answers' = <<>>
        /\ mr' = NoOutcome
        /\ outcome' = NoOutcome
        /\ UNCHANGED <<bucket, store, now, listVars, canonVars, metaVars>>

Expires == {[kind |-> "timedelta", v |-> DefaultExpire], [kind |-> "timestamp", v |-> 60]}

\* url_for(key, authenticated, expire): no request is made
CallUrlFor ==
    \E key \in Keys, authenticated \in BOOLEAN, expire \in Expires :
        /\ pc = "idle"
        /\ pc' = "done"
        /\ call' = [NoCall EXCEPT !.op = "url_for", !.key = key]
        /\ outcome' = Returns(url_for(bucket, key, authenticated, expire, now), NoCode)
        /\ heap' = EnterHeap("url_for", EmptyDict, EmptyDict, EmptyDict)
        /\ retry_no' = 0
        /\ last' = NoRequest
        /\ last_at' = 0
        /\ answers' = <<>>
        /\ mr' = NoOutcome
        /\ UNCHANGED <<bucket, store, now, listVars, canonVars, metaVars>>

CallCopy ==
    \E key \in Keys, replace \in BOOLEAN :
        Enter("copy", "PUT", key, None,
              copy_headers(bucket.name \o "/a", key, None, replace,
                           [h \in {"hairdo"} |-> "Secret"], None,
                           Bound(EmptyDict, "copy.headers")),
              EmptyDict, IF replace THEN [h \in {"hairdo"} |-> "Secret"] ELSE EmptyDict)

CallPutBucket ==
    \E config_xml \in {None, "<CreateBucketConfiguration/>"}, acl \in {None, "private"} :
        Enter("put_bucket", "PUT", None, config_xml, put_bucket_headers(config_xml, acl),
              EmptyDict, EmptyDict)

\* make_request called directly
CallMakeRequest ==
    \E method \in {"GET", "PUT"}, data \in Bodies, headers \in CallerHeaders :
        /\ method = "GET" => data = None
        /\ method = "PUT" => data # None /\ "Date" \notin DOMAIN headers
                                       /\ "Authorization" \notin DOMAIN headers
        /\ data = "" => headers = EmptyDict
        /\ Enter("make_request", method, "a", data, headers, headers, EmptyDict)

\* The clock moves on. (Once a call has ended, time passing before the caller
\* takes the result changes nothing: it is left to pass after Return.)
Tick ==
    /\ now < MaxClock
    /\ pc # "done"
    /\ now' = now + 1
    /\ UNCHANGED <<bucket, store, pc, call, retry_no, last, last_at, answers, mr,
                   outcome, heap, listVars, canonVars, metaVars>>

\* One pass of make_request's loop: a fresh request is built and opened. On
\* HTTP 500 the loop goes on; otherwise make_request ends, and with it the
\* operation that called it.
Attempt ==
    /\ pc = "attempt"
    /\ \E request \in {new_request(bucket, call.method, call.key, call.args,
                                    call.data, heap[call.href], now)} :
           \E ans \in TransportAnswers(request, store) :
            LET m == make_request_step(retry_no, ans)
            IN  /\ last' = request
                /\ heap' = [heap EXCEPT !["request"] = request.headers]
                /\ last_at' = now
                /\ answers' = Append(answers, ans)
                /\ store' = IF ans.processed THEN ServerStore(request, store) ELSE store
                /\ IF m.kind = "continue"
                   THEN /\ retry_no' = retry_no + 1
                        /\ UNCHANGED <<pc, mr, outcome>>
                   ELSE /\ pc' = "done"
                        /\ mr' = m
                        /\ outcome' = Finish(call.op, call.key, m)
                        /\ UNCHANGED retry_no
    /\ UNCHANGED <<bucket, now, call, listVars, canonVars, metaVars>>

\* The caller takes the result; the bucket is ready for the next call.
Return ==
    /\ pc = "done"
    /\ pc' = "idle"
    /\ call' = NoCall
    /\ retry_no' = 0
    /\ last' = NoRequest
    /\ last_at' = 0
    /\ answers' = <<>>
    /\ mr' = NoOutcome
    /\ outcome' = NoOutcome
    /\ heap' = [r \in DOMAIN heap |-> IF r \in CallRefs THEN EmptyDict ELSE heap[r]]
    /\ UNCHANGED <<bucket, store, now, listVars, canonVars, metaVars>>

Next ==
    \/ CallGet \/ CallInfo \/ CallContains \/ CallDelete \/ CallPut \/ CallCopy
    \/ CallPutBucket \/ CallMakeRequest \/ CallListdir \/ CallUrlFor
    \/ Tick \/ Attempt \/ Return

Spec == Init /\ [][Next]_vars

----------------------------------------------------------------------------
(* Properties of the retry loop and of the operations.                     *)

Dispatched == Len(answers)

LastAnswer == answers[Len(answers)]

Transient(ans) == ans.kind = "error" /\ ans.code = 500

AllTransient(seq) == \A i \in 1..Len(seq) : Transient(seq[i])

\* C1: if the first k attempts (0 <= k <= 9) are answered with HTTP 500 and
\* attempt k+1 with a success response, make_request returns that response after
\* exactly k+1 dispatches; if 10 attempts in a row are answered with HTTP 500 it
\* raises RuntimeError; an 11th attempt is never dispatched.
C1_RetryBound ==
    /\ Dispatched <= MaxRetries
    /\ pc = "attempt" => (Dispatched = retry_no /\ AllTransient(answers))
    /\ (pc = "done" /\ Dispatched > 0) =>
        /\ AllTransient(SubSeq(answers, 1, Dispatched - 1))
        /\ LastAnswer.kind = "response" =>
              (Dispatched - 1 <= 9 /\ mr = Returns("response", LastAnswer.code))
        /\ Transient(LastAnswer) =>
              (Dispatched = 10 /\ mr.kind = "raise" /\ mr.exc = "RuntimeError")
        /\ (mr.kind = "raise" /\ mr.exc = "RuntimeError") => AllTransient(answers)

\* Nine HTTP 500 answers, then a success: the tenth request's response is returned.
C1_Witness ==
    /\ pc = "done"
    /\ Dispatched = 10
    /\ AllTransient(SubSeq(answers, 1, 9))
    /\ LastAnswer.kind = "response"
    /\ mr.kind = "return"

\* C2: whenever the server answers 404, each of info, get and delete ends by
\* raising KeyError for the key, never S3Error.
C2_NotFoundIsKeyError ==
    (/\ pc = "done"
     /\ call.op \in {"info", "get", "delete"}
     /\ Dispatched > 0
     /\ LastAnswer.code = 404)
    => (outcome.kind = "raise" /\ outcome.exc = "KeyError" /\ outcome.value = call.key)

\* C5: for every non-transient outcome of the DELETE request, returned or
\* raised by the transport, delete returns True (status 2xx), raises KeyError
\* (status 404) or raises S3Error (any other status), and nothing else.
C5_DeleteDefinitive ==
    (/\ pc = "done"
     /\ call.op = "delete"
     /\ Dispatched > 0
     /\ ~Transient(LastAnswer))
    => IF 200 <= LastAnswer.code /\ LastAnswer.code < 300
       THEN outcome.kind = "return" /\ outcome.value = "True"
       ELSE IF LastAnswer.code = 404
       THEN outcome.kind = "raise" /\ outcome.exc = "KeyError"
       ELSE outcome.kind = "raise" /\ outcome.exc = "S3Error"

\* C6: delete on an absent key raises KeyError; delete on a present key returns
\* True; an existence check answers whether the key is in the bucket: False
\* after a delete, True after a put that no delete followed.
C6_PutDeleteContains ==
    (pc = "done" /\ Dispatched > 0 /\ LastAnswer.processed /\ call.key \in Keys) =>
        /\ (call.op = "delete" /\ LastAnswer.code = 404) =>
              (outcome.kind = "raise" /\ outcome.exc = "KeyError")
        /\ (call.op = "delete" /\ LastAnswer.code = 204) =>
              (outcome.kind = "return" /\ outcome.value = "True" /\ call.key \notin store)
        /\ call.op = "contains" =>
              (outcome.kind = "return"
               /\ outcome.value = (IF call.key \in store THEN "True" ELSE "False"))

\* The Authorization value new_request computes for a request with headers h.
SignatureOver(h) ==
    "AWS " \o bucket.access_key \o ":"
        \o sign_description(bucket, make_description(bucket, call.method, call.key, h, None, None))

\* C7, as stated: every attempt dispatched by make_request carries the Date read
\* from the clock at that attempt and a signature computed for that attempt.
C7_EveryAttemptFresh ==
    Dispatched > 0 =>
        /\ last.headers["Date"] = Strftime(last_at)
        /\ last.headers["Authorization"] = SignatureOver(last.headers)

\* C7, amended: unless the caller's headers hold a Date, every attempt carries
\* the Date read from the clock at that attempt; unless they hold an
\* Authorization, every attempt carries the signature computed over that
\* attempt's own headers; a Date or Authorization the caller gave is sent as
\* given on every attempt. Nothing but the method, key, args, body and caller
\* headers passes from one attempt to the next.
C7_FreshUnlessSupplied ==
    Dispatched > 0 =>
        /\ last.headers["Date"] =
              (IF "Date" \in DOMAIN call.headers THEN call.headers["Date"]
               ELSE Strftime(last_at))
        /\ last.headers["Authorization"] =
              (IF "Authorization" \in DOMAIN call.headers THEN call.headers["Authorization"]
               ELSE SignatureOver(last.headers))
        /\ last.method = call.method
        /\ last.data = call.data
        /\ last.url = make_url(bucket, call.key, call.args, ";")
        /\ \A h \in DOMAIN call.headers : last.headers[h] = call.headers[h]
        /\ DOMAIN last.headers \subseteq
              DOMAIN call.headers \cup {"Date", "Authorization", "Content-MD5"}

\* A retry dispatched after the clock moved on: its Date is the later reading.
C7_Witness ==
    /\ Dispatched >= 2
    /\ Transient(answers[1])
    /\ last_at > 0
    /\ "Date" \notin DOMAIN call.headers
    /\ "Authorization" \notin DOMAIN call.headers
    /\ last.headers["Date"] = Strftime(last_at)
    /\ last.headers["Date"] # Strftime(0)

\* C10: every request dispatched with a body (through put, put_bucket or
\* make_request) has a Content-MD5 header, on the first attempt and on every
\* retry; unless the caller supplied it, it is the base64 MD5 of the body sent,
\* which for put is the body the transformer returned.
C10_BodyHasContentMD5 ==
    (Dispatched > 0 /\ Truthy(last.data)) =>
        /\ "Content-MD5" \in DOMAIN last.headers
        /\ (call.op = "put" \/ "Content-MD5" \notin DOMAIN call.caller) =>
              last.headers["Content-MD5"] = aws_md5(last.data)

\* A put with a transformer, retried: the hash sent is that of the transformed body.
C10_Witness ==
    /\ Dispatched >= 2
    /\ call.op = "put"
    /\ last.data = Transform("gzip", EmptyDict, "my content")
    /\ last.headers["Content-MD5"] = aws_md5(last.data)

----------------------------------------------------------------------------
(* listdir: the incremental parser of the listing body.                    *)

\* listdir_re.match(text): the groups of the first match in the order the
\* regular expression engine tries them (both .+? as short as can be), or no
\* match. "." matches no newline; "$" matches at the end and before a final
\* newline.
listdir_re_match(text) ==
    LET n == Len(text)
        ends == {n} \cup (IF n > 0 /\ Char(text, n - 1) = "\n" THEN {n - 1} ELSE {})
        plain(x) == Find(x, "\n") < 0
        \* where a key may end, and where an entity tag may
        keyEnds == {i \in 6..n : Slice(text, i, i + 20) = "</Key><LastModified>"}
        tagEnds == {j \in 0..n : Slice(text, j, j + 13) = "</ETag><Size>"}
        \* the key ends at i, the entity tag at j, the match at e
        fits(i, j, e) ==
            /\ Slice(text, i + 44, i + 65) = "</LastModified><ETag>"
            /\ Len(Slice(text, i + 20, i + 44)) = 24
            /\ plain(Slice(text, 5, i + 44))
            /\ j > i + 65
            /\ plain(Slice(text, i + 65, j))
            /\ e - 7 > j + 13
            /\ AllDigits(Slice(text, j + 13, e - 7))
            /\ Slice(text, e - 7, e) = "</Size>"
        is == {i \in keyEnds : \E j \in tagEnds : \E e \in ends : fits(i, j, e)}
    IN  IF ~StartsWith(text, "<Key>") \/ is = {} THEN [ok |-> FALSE]
        ELSE LET i == MinOf(is)
                 j == MinOf({k \in tagEnds : \E e \in ends : fits(i, k, e)})
                 e == CHOOSE x \in ends : fits(i, j, x)
             IN  [ok |-> TRUE, key |-> Slice(text, 5, i),
                  modify |-> Slice(text, i + 20, i + 44),
                  etag |-> Slice(text, i + 65, j),
                  size |-> Slice(text, j + 13, e - 7)]

DaysIn(year, month) ==
    IF month = 2
    THEN (IF year % 4 = 0 /\ (year % 100 # 0 \/ year % 400 = 0) THEN 29 ELSE 28)
    ELSE IF month \in {4, 6, 9, 11} THEN 30 ELSE 31

\* _iso8601_dt(v) = datetime.strptime(v, '%Y-%m-%dT%H:%M:%S.000Z') of a string
\* of 24 characters: the datetime as <<year, month, day, hour, minute, second>>,
\* or no datetime (strptime raises ValueError).
_iso8601_dt(v) ==
    LET num(a, b) == IntOf(Slice(v, a, b))
        shaped ==
            /\ Len(v) = 24
            /\ AllDigits(Slice(v, 0, 4)) /\ Char(v, 4) = "-"
            /\ AllDigits(Slice(v, 5, 7)) /\ Char(v, 7) = "-"
            /\ AllDigits(Slice(v, 8, 10)) /\ Char(v, 10) = "T"
            /\ AllDigits(Slice(v, 11, 13)) /\ Char(v, 13) = ":"
            /\ AllDigits(Slice(v, 14, 16)) /\ Char(v, 16) = ":"
            /\ AllDigits(Slice(v, 17, 19)) /\ Slice(v, 19, 24) = ".000Z"
        dt == <<num(0, 4), num(5, 7), num(8, 10), num(11, 13), num(14, 16), num(17, 19)>>
    IN  IF /\ shaped
           /\ dt[1] >= 1
           /\ dt[2] \in 1..12
           /\ dt[3] >= 1 /\ dt[3] <= DaysIn(dt[1], dt[2])
           /\ dt[4] <= 23 /\ dt[5] <= 59 /\ dt[6] <= 59
        THEN [ok |-> TRUE, dt |-> dt]
        ELSE [ok |-> FALSE]

\* A bug listdir does not have: the bytes left over from the previous read
\* are dropped.
ListAppendDropping(buffer, data) == data

\* buffer += data
ListAppend(buffer, data) == buffer \o data

\* The inner loop of listdir: every complete record in the buffer is cut out,
\* matched and yielded; it ends when the buffer holds no "</Contents>", or in
\* ValueError (raised by str.index, by the failed match or by strptime).
RECURSIVE ListDrain(_, _)
ListDrain(buffer, yielded) ==
    LET pos_end == Find(buffer, "</Contents>")
        start == Find(buffer, "<Contents>")
        piece == Slice(buffer, start + 10, pos_end)
        rest == SliceFrom(buffer, pos_end + 10)
        owner == Find(piece, "<Owner>")
        mo == listdir_re_match(Slice(piece, 0, owner))
        modify == _iso8601_dt(mo.modify)
    IN  IF pos_end = 0 - 1 THEN [state |-> "reading", buffer |-> buffer, yielded |-> yielded]
        ELSE IF start = 0 - 1 THEN [state |-> "ValueError", buffer |-> buffer, yielded |-> yielded]
        ELSE IF owner = 0 - 1 \/ ~mo.ok \/ ~modify.ok
             THEN [state |-> "ValueError", buffer |-> rest, yielded |-> yielded]
        ELSE ListDrain(rest, Append(yielded,
                 <<mo.key, modify.dt, Replace(mo.etag, "&quot;", "\""), IntOf(mo.size)>>))

\* The records a listing may hold: key, last modification, entity tag, size.
Records ==
    {[key |-> "a", modify |-> <<2009, 1, 31, 23, 59, 58>>, etag |-> "\"e1\"", size |-> 4],
     [key |-> "b/c", modify |-> <<2012, 2, 29, 0, 0, 0>>, etag |-> "\"e2\"", size |-> 17]}

MaxRecords == 2

MaxChunk == 3

\* response.read(4096) returns at most this many bytes
ReadSize == 4096

\* The server's rendering of a timestamp: ISO 8601 with milliseconds and Z.
Iso8601(dt) ==
    SubSeq("0000", 1, 4 - Len(StrOf(dt[1]))) \o StrOf(dt[1]) \o "-" \o TwoDigits(dt[2])
        \o "-" \o TwoDigits(dt[3]) \o "T" \o TwoDigits(dt[4]) \o ":" \o TwoDigits(dt[5])
        \o ":" \o TwoDigits(dt[6]) \o ".000Z"

\* The server's rendering of one record of the listing.
Contents(r) ==
    "<Contents><Key>" \o r.key \o "</Key><LastModified>" \o Iso8601(r.modify)
        \o "</LastModified><ETag>" \o Replace(r.etag, "\"", "&quot;") \o "</ETag><Size>"
        \o StrOf(r.size) \o "</Size><Owner><ID>7</ID></Owner>"
        \o "<StorageClass>STANDARD</StorageClass></Contents>"

\* A record the server got wrong, or that the connection cut short.
Faulty(r, fault) ==
    LET good == Contents(r)
    IN  CASE fault = "size" -> Replace(good, "<Size>", "<Size>x")
          [] fault = "date" -> Replace(good, ".000Z", ".00Z")
          [] fault = "month" -> Replace(good, "-01-", "-13-")
          [] fault = "owner" -> Replace(Replace(good, "<Owner>", "<Ownr>"), "</Owner>", "</Ownr>")
          [] fault = "etag" -> Replace(good, "&quot;e1&quot;", "")
          [] fault = "cut-open" -> Slice(good, 0, 10)
          [] fault = "cut-key" -> Slice(good, 0, 18)
          [] fault = "cut-close" -> Slice(good, 0, Len(good) - 1)

Malformed == {"size", "date", "month", "owner", "etag"}

Truncated == {"cut-open", "cut-key", "cut-close"}

RECURSIVE AllContents(_)
AllContents(rs) == IF Len(rs) = 0 THEN "" ELSE Contents(rs[1]) \o AllContents(Tail(rs))

ListingHead == "<ListBucketResult><Name>bottle</Name><IsTruncated>false</IsTruncated>"

ListingTail == "</ListBucketResult>"

\* The body of the listing response: the records, then the faulty one if any.
ListingBody(rs, fault) ==
    ListingHead \o AllContents(rs)
        \o (IF fault = "none" THEN ListingTail
            ELSE IF fault \in Truncated THEN Faulty([key |-> "a", modify |-> <<2009, 1, 31, 23, 59, 58>>, etag |-> "\"e1\"", size |-> 4], fault)
            ELSE Faulty([key |-> "a", modify |-> <<2009, 1, 31, 23, 59, 58>>, etag |-> "\"e1\"", size |-> 4], fault) \o ListingTail)

RecordSeqs == UNION {[1..n -> Records] : n \in 0..MaxRecords}

ListInit ==
    /\ l_records \in RecordSeqs
    /\ l_fault \in {"none"} \cup Malformed \cup Truncated
    /\ l_fault # "none" => Len(l_records) <= 1
    /\ l_body = ListingBody(l_records, l_fault)
    /\ l_pos = 0
    /\ l_buffer = ""
    /\ l_yielded = <<>>
    /\ l_state = "reading"

\* One pass of listdir's outer loop: response.read(4096) returns the next n
\* bytes of the body (nothing at its end), the buffer takes them, every record
\* now complete is yielded, and after an empty read the generator ends.
ListRead ==
    /\ l_state = "reading"
    /\ \E n \in (1..MaxChunk) \cup {ReadSize} :
        \E data \in {Slice(l_body, l_pos, l_pos + n)} :
        \E d \in {ListDrain(ListAppend(l_buffer, data), l_yielded)} :
            /\ l_pos' = l_pos + Len(data)
            /\ l_buffer' = d.buffer
            /\ l_yielded' = d.yielded
            /\ l_state' = IF d.state = "reading" /\ data = "" THEN "done" ELSE d.state
    /\ UNCHANGED <<l_records, l_fault, l_body, mainVars, canonVars, metaVars>>

ListNext == ListRead

InitList == MainIdle /\ ListInit /\ CanonIdle /\ MetaIdle

SpecList == InitList /\ [][ListNext]_vars

\* The entry listdir is to yield for a record.
EntryOf(r) == <<r.key, r.modify, r.etag, r.size>>

Expected == [i \in 1..Len(l_records) |-> EntryOf(l_records[i])]

\* What listdir yields when one read returns the whole body.
SingleChunk(body) == ListDrain(ListAppend("", body), <<>>)

\* C3: for a body of well-formed records, however it is split into chunks
\* (one byte per read, tags cut in the middle), listdir yields one entry per
\* record in document order, the same sequence as for the body in one chunk.
C3_ChunkingInvariant ==
    l_fault = "none" =>
        /\ l_state # "ValueError"
        /\ Len(l_yielded) <= Len(l_records)
        /\ l_yielded = SubSeq(Expected, 1, Len(l_yielded))
        /\ l_state = "done" =>
              (l_yielded = Expected /\ l_yielded = SingleChunk(l_body).yielded)

\* The first of two records is out; a read has ended inside the closing tag of
\* the second.
C3_Witness ==
    /\ l_fault = "none"
    /\ Len(l_records) = 2
    /\ l_state = "reading"
    /\ l_yielded = <<EntryOf(l_records[1])>>
    /\ Len(l_buffer) > 8
    /\ SliceFrom(l_buffer, Len(l_buffer) - 8) = "</Conten"

\* C4: a record that is truncated (the stream ends between its opening and its
\* closing tag) or malformed (it does not match the pattern) makes listdir
\* raise ValueError; iteration never ends normally past it.
C4_BadRecordRaises ==
    (l_fault # "none" /\ l_state \in {"done", "ValueError"}) => l_state = "ValueError"

----------------------------------------------------------------------------
(* The canonicaliser on its own: _amz_canonicalize on header mappings.     *)

HeaderNames == {"x-amz-a", "X-AMZ-A", "X-Amz-B", "Content-Type", "x-am", "ax-amz-c"}

HeaderValues == {"1", "2"}

MaxHeaders == 3

HeaderMappings ==
    UNION {[names -> HeaderValues] :
             names \in {N \in SUBSET HeaderNames : Cardinality(N) <= MaxHeaders}}

InitCanon ==
    /\ MainIdle /\ ListIdle /\ MetaIdle
    /\ c_headers \in HeaderMappings
    /\ c_order \in IterOrders(DOMAIN c_headers)
    /\ c_out = ""
    /\ c_state = "input"

\* _amz_canonicalize(c_headers), the dict being iterated in the order c_order
Canonicalize ==
    /\ c_state = "input"
    /\ c_out' = AmzCanonicalizeIn(c_headers, c_order)
    /\ c_state' = "done"
    /\ UNCHANGED <<c_headers, c_order, mainVars, listVars, metaVars>>

NextCanon == Canonicalize

SpecCanon == InitCanon /\ [][NextCanon]_vars

\* The mappings that differ from headers in the letter case of names only:
\* every name is left alone, lower-cased or upper-cased, no two becoming one.
Recasings(headers) ==
    LET names == DOMAIN headers
        recase(f, n) == CASE f[n] = "lower" -> Lower(n)
                          [] f[n] = "upper" -> Upper(n)
                          [] OTHER -> n
        fs == {f \in [names -> {"same", "lower", "upper"}] :
                 \A a, b \in names : a # b => recase(f, a) # recase(f, b)}
    IN  {[m \in {recase(f, n) : n \in names} |->
            headers[CHOOSE n \in names : recase(f, n) = m]] : f \in fs}

\* the names the canonical string lists, in the order it lists them
RECURSIVE CanonNames(_)
CanonNames(out) ==
    IF out = "" THEN <<>>
    ELSE <<Slice(out, 0, Find(out, ":"))>> \o CanonNames(SliceFrom(out, Find(out, "\n") + 1))

\* C8: the string _amz_canonicalize produces is the same under any reordering
\* of the headers and any change of letter case of their names (two names that
\* differ only in case included); only x-amz- names appear in it, lower-cased
\* and sorted; the empty mapping gives the empty string.
C8_CanonInvariant ==
    c_state = "done" =>
        /\ \A h \in Recasings(c_headers) : \A o \in IterOrders(DOMAIN h) :
              AmzCanonicalizeIn(h, o) = c_out
        /\ LET names == CanonNames(c_out)
           IN  /\ \A i \in 1..Len(names) :
                    /\ StartsWith(names[i], "x-amz-")
                    /\ names[i] = Lower(names[i])
                    /\ i > 1 => StrLess(names[i - 1], names[i])
               /\ {names[i] : i \in 1..Len(names)} =
                     {Lower(n) : n \in {x \in DOMAIN c_headers : StartsWith(Lower(x), "x-amz-")}}
        /\ c_headers = EmptyDict => c_out = ""

----------------------------------------------------------------------------
(* Metadata: what put encodes as headers and info decodes from the headers  *)
(* of the response.                                                        *)

Weekdays == {"Mon", "Tue", "Wed", "Thu", "Fri", "Sat", "Sun"}

Months == <<"Jan", "Feb", "Mar", "Apr", "May", "Jun",
            "Jul", "Aug", "Sep", "Oct", "Nov", "Dec">>

\* _rfc822_dt(v) = datetime.strptime(v, '%a, %d %b %Y %H:%M:%S GMT') of a
\* string of 29 characters, as _iso8601_dt gives it.
_rfc822_dt(v) ==
    LET num(a, b) == IntOf(Slice(v, a, b))
        shaped ==
            /\ Len(v) = 29
            /\ Slice(v, 0, 3) \in Weekdays /\ Slice(v, 3, 5) = ", "
            /\ AllDigits(Slice(v, 5, 7)) /\ Char(v, 7) = " "
            /\ \E i \in 1..12 : Months[i] = Slice(v, 8, 11)
            /\ Char(v, 11) = " "
            /\ AllDigits(Slice(v, 12, 16)) /\ Char(v, 16) = " "
            /\ AllDigits(Slice(v, 17, 19)) /\ Char(v, 19) = ":"
            /\ AllDigits(Slice(v, 20, 22)) /\ Char(v, 22) = ":"
            /\ AllDigits(Slice(v, 23, 25)) /\ Slice(v, 25, 29) = " GMT"
        dt == <<num(12, 16), CHOOSE i \in 1..12 : Months[i] = Slice(v, 8, 11),
                num(5, 7), num(17, 19), num(20, 22), num(23, 25)>>
    IN  IF /\ shaped
           /\ dt[1] >= 1
           /\ dt[3] >= 1 /\ dt[3] <= DaysIn(dt[1], dt[2])
           /\ dt[4] <= 23 /\ dt[5] <= 59 /\ dt[6] <= 59
        THEN [ok |-> TRUE, dt |-> dt]
        ELSE [ok |-> FALSE]

\* info_dict(headers): the keys depend on the headers present; "date" is a
\* one-element tuple (the trailing comma of the source).
info_dict(headers) ==
    LET has(h) == h \in DOMAIN headers
        keys == {"headers", "metadata"}
                  \cup (IF has("content-length") THEN {"size"} ELSE {})
                  \cup (IF has("content-type") THEN {"mimetype"} ELSE {})
                  \cup (IF has("date") THEN {"date"} ELSE {})
                  \cup (IF has("last-modified") THEN {"modify"} ELSE {})
    IN  [k \in keys |->
            CASE k = "headers" -> headers
              [] k = "metadata" -> headers_metadata(headers)
              [] k = "size" -> IntOf(headers["content-length"])
              [] k = "mimetype" -> headers["content-type"]
              [] k = "date" -> <<_rfc822_dt(headers["date"])>>
              [] k = "modify" -> _rfc822_dt(headers["last-modified"])]

MetaKeys == {"hairdo", "Hairdo", "b", "B2"}

MetaValues == {"Secret", "x"}

MaxMeta == 2

MetaMappings ==
    UNION {[ks -> MetaValues] : ks \in {K \in SUBSET MetaKeys : Cardinality(K) <= MaxMeta}}

\* How the transport hands over the names of the response's headers: httplib
\* lower-cases them, the App Engine shim passes on what urlfetch gives.
WireCases == {"lower", "asis"}

WireName(wire, n) == IF wire = "lower" THEN Lower(n) ELSE n

\* The headers the server answers a HEAD with, for an object stored with the
\* headers sent: its own ones, and the object's metadata headers.
ServerHeaders(sent, t) ==
    LET meta == {h \in DOMAIN sent : StartsWith(Lower(h), "x-amz-meta-")}
        own == {"Content-Length", "Content-Type", "Date", "ETag", "Last-Modified",
                "Server", "x-amz-id-2", "x-amz-request-id"}
    IN  [h \in own \cup meta |->
            CASE h = "Content-Length" -> sent["Content-Length"]
              [] h = "Content-Type" -> sent["Content-Type"]
              [] h = "Date" -> Strftime(t)
              [] h = "Last-Modified" -> Strftime(t)
              [] h = "ETag" -> "\"" \o sent["Content-MD5"] \o "\""
              [] h = "Server" -> "AmazonS3"
              [] h \in {"x-amz-id-2", "x-amz-request-id"} -> "id"
              [] OTHER -> sent[h]]

\* dict(response.info()): one entry per name as the wire cases it; of two
\* headers that become one name, either value.
Delivered(served, wire) ==
    LET from(n) == {h \in DOMAIN served : WireName(wire, h) = n}
        names == {WireName(wire, h) : h \in DOMAIN served}
        shared == {n \in names : Cardinality(from(n)) > 1}
        picks == {c \in [shared -> DOMAIN served] : \A n \in shared : c[n] \in from(n)}
    IN  {[n \in names |->
            IF n \in shared THEN served[c[n]] ELSE served[CHOOSE h \in from(n) : TRUE]] :
         c \in picks}

InitMeta ==
    /\ MainIdle /\ ListIdle /\ CanonIdle
    /\ m_metadata \in MetaMappings
    /\ m_wire \in WireCases
    /\ m_headers = EmptyDict
    /\ m_info = EmptyDict
    /\ m_state = "input"

\* put(key, data, metadata = m_metadata): the headers of the request
MetaPut ==
    /\ m_state = "input"
    /\ m_headers' = put_arguments("a", "Hi!", None, m_metadata, None, None, EmptyDict).headers
    /\ m_state' = "sent"
    /\ UNCHANGED <<m_metadata, m_wire, m_info, mainVars, listVars, canonVars>>

\* info(key) up to response.info(): the headers of the response to the HEAD
MetaHead ==
    /\ m_state = "sent"
    /\ m_headers' \in Delivered(ServerHeaders(m_headers, now), m_wire)
    /\ m_state' = "received"
    /\ UNCHANGED <<m_metadata, m_wire, m_info, mainVars, listVars, canonVars>>

\* info(key) from there: rv = info_dict(dict(response.info()))
MetaInfo ==
    /\ m_state = "received"
    /\ m_info' = info_dict(m_headers)
    /\ m_state' = "decoded"
    /\ UNCHANGED <<m_metadata, m_wire, m_headers, mainVars, listVars, canonVars>>

NextMeta == MetaPut \/ MetaHead \/ MetaInfo

SpecMeta == InitMeta /\ [][NextMeta]_vars

\* C9 as stated: put's metadata comes back from info exactly, keys and values.
C9_RoundTripExact ==
    m_state = "decoded" => m_info["metadata"] = m_metadata

\* the metadata key k as info gives it back
KeyOnWire(k) == SliceFrom(WireName(m_wire, MetaPrefix \o k), Len(MetaPrefix))

\* C9: the metadata info gives back has, for every key put sent, the key in the
\* letter case the wire delivers the header name in, with a value sent under a
\* key that the wire cases so, and nothing else; it is exactly the mapping
\* sent when the wire changes the case of no key. The prefix is recognised in
\* whatever case it arrives.
C9_RoundTripUpToCase ==
    m_state = "decoded" =>
        LET md == m_info["metadata"]
        IN  /\ DOMAIN md = {KeyOnWire(k) : k \in DOMAIN m_metadata}
            /\ \A j \in DOMAIN md :
                  md[j] \in {m_metadata[k] : k \in {x \in DOMAIN m_metadata : KeyOnWire(x) = j}}
            /\ (\A k \in DOMAIN m_metadata : KeyOnWire(k) = k) => md = m_metadata

C9_Witness ==
    /\ m_state = "decoded"
    /\ m_wire = "lower"
    /\ m_metadata = [k \in {"hairdo", "B2"} |-> IF k = "hairdo" THEN "Secret" ELSE "x"]
    /\ m_info["metadata"] = [k \in {"hairdo", "b2"} |-> IF k = "hairdo" THEN "Secret" ELSE "x"]
    /\ m_info["size"] = 3

----------------------------------------------------------------------------
(* Further properties of make_request and of the requests it builds.       *)

\* C11: make_request goes on to another attempt only after an error with status
\* 500. On any other transport error (another status, or none) it raises
\* S3Error on that attempt and dispatches nothing more; the error carries the
\* status and the reason whenever the transport's error had them; and
\* make_request returns normally only when the last attempt got a response.
C11_OnlyStatus500Retried ==
    /\ \A i \in 1..(Dispatched - 1) : Transient(answers[i])
    /\ (pc = "attempt" /\ Dispatched > 0) => Transient(LastAnswer)
    /\ (pc = "done" /\ Dispatched > 0 /\ LastAnswer.kind = "error" /\ LastAnswer.code # 500) =>
          /\ mr.kind = "raise" /\ mr.exc = "S3Error"
          /\ mr.code = LastAnswer.code
          /\ LastAnswer.code # NoCode =>
                ("code" \in DOMAIN mr.extra /\ mr.extra["code"] = LastAnswer.code)
          /\ LastAnswer.reason # None =>
                ("reason" \in DOMAIN mr.extra /\ mr.extra["reason"] = LastAnswer.reason)
    /\ (pc = "done" /\ mr.kind = "return") => LastAnswer.kind = "response"

\* Two HTTP 500 answers, then 503 Service Unavailable: S3Error on the third attempt.
C11_Witness ==
    /\ pc = "done"
    /\ Dispatched = 3
    /\ LastAnswer.kind = "error" /\ LastAnswer.code = 503 /\ LastAnswer.reason # None
    /\ mr.exc = "S3Error"
    /\ mr.extra["code"] = 503 /\ mr.extra["reason"] = "Service Unavailable"

\* The value of header h as the request carries it, "" when it does not
Sent(h) == IF h \in DOMAIN last.headers THEN last.headers[h] ELSE ""

\* The canonical string of the request dispatched last, from what it carries
CanonicalOfSent ==
    call.method \o "\n" \o Sent("Content-MD5") \o "\n" \o Sent("Content-Type") \o "\n"
        \o Sent("Date") \o "\n"
        \o AmzCanonicalize(last.headers)
        \o "/" \o aws_urlquote(bucket.name) \o "/"
        \o (IF call.key = None THEN "" ELSE aws_urlquote(call.key))

\* C12: a request built without an Authorization header from the caller carries
\* 'AWS <access key>:<signature>', the signature being the keyed digest of
\* METHOD, Content-MD5, Content-Type and Date, a newline after each, then the
\* canonicalised x-amz- headers, then /<bucket>/<key> (ending in / without a
\* key), all taken from the headers that very request carries, the Date among
\* them.
C12_SignatureOverSentHeaders ==
    (Dispatched > 0 /\ "Authorization" \notin DOMAIN call.headers) =>
        /\ "Date" \in DOMAIN last.headers
        /\ last.headers["Authorization"] =
              "AWS " \o bucket.access_key \o ":" \o sign_description(bucket, CanonicalOfSent)

\* A put with a body, an ACL and metadata: all of them are under the signature.
C12_Witness ==
    /\ Dispatched > 0
    /\ call.op = "put"
    /\ "Authorization" \notin DOMAIN call.headers
    /\ last.headers["Authorization"] =
          "AWS AKID:hmac(secret,PUT\nmd5(my content)\ntext/plain\n" \o Strftime(last_at)
              \o "\nx-amz-acl:public-read\nx-amz-meta-hairdo:Secret\n/bottle/a)"

\* The client as __init__ made it
Constructed == NewBucket("bottle", "AKID", "secret", None)

\* The headers put and copy may add to the ones the caller gave
OwnHeaders ==
    {"Content-Type", "Content-Length", "Content-MD5", "X-AMZ-ACL", "X-AMZ-Copy-Source",
     "X-AMZ-Metadata-Directive"} \cup DOMAIN metadata_headers(call.metadata)

====
